---- MODULE Spec2Model ----
(***************************************************************************)
(* The reaction toggle, the post statistics, the comment creation and the  *)
(* create, update and destroy of posts of social_network/posts, as request *)
(* handlers running against one database.  Every request is one slot of    *)
(* Procs; a handler is split into one action per database statement it     *)
(* issues, because the views open no transaction around their statements.  *)
(***************************************************************************)
EXTENDS Integers, Sequences, FiniteSets, TLC

\* Number of request slots: the most requests a behaviour of ToggleSpec issues.
NProcs == 3

\* The most requests a behaviour of Spec or SeqSpec issues.
MaxArrivals == 2

Procs == 1..NProcs

\* The users of the test fixtures, and the caller that carries no session.
Users == {"user1", "user2"}
Anon == "anonymous"
Callers == Users \cup {Anon}

\* Post 1 exists from the start; post 2 is an id no post has until a request
\* creates a post.
PostIds == {1, 2}

LIKE == "like"
DISLIKE == "dislike"
REACTION_CHOICES == {LIKE, DISLIKE}

\* What a request body may carry under the key 'reaction'.
Absent == "<absent>"
ReactionInputs == {LIKE, DISLIKE, "angry", Absent}

NoRow == [id |-> 0, user |-> Anon, post |-> 0, reaction |-> ""]
NoStats == [likes_count |-> -1, dislikes_count |-> -1,
            comments_count |-> -1, total_reactions |-> -1]
NoReq == [op |-> "none", user |-> Anon, post |-> 0, data |-> ""]
NoResp == [code |-> 0, status |-> "", like |-> NoRow, stats |-> NoStats]
NoPost == [author |-> Anon, text |-> "", location_name |-> "",
           latitude |-> "null", longitude |-> "null"]
NoLoc == [like |-> NoRow, created |-> FALSE, conflict |-> FALSE, stats |-> NoStats,
          post_id |-> 0, post |-> NoPost, geo |-> "",
          deleted |-> [likes |-> {}, comments |-> {}]]

VARIABLES
    posts,        \* ids of the stored Post rows
    postData,     \* the stored Post rows by id: [author, text, location_name,
                  \* latitude, longitude]
    nextPostId,   \* the next primary key the Post table hands out
    likes,        \* the stored Like rows: [id, user, post, reaction]
    nextLikeId,   \* the next primary key the Like table hands out
    comments,     \* the stored Comment rows in creation order
    pc,           \* where each request stands in its handler
    req,          \* each request: [op, user, post, data]
    loc,          \* each handler's local variables (conflict: its create failed)
    resp,         \* each request's response
    likes0,       \* the Like rows of the initial state
    pre           \* the store as it was when the latest request arrived

vars == <<posts, postData, nextPostId, likes, nextLikeId, comments, pc, req, loc, resp, likes0, pre>>

(***************************************************************************)
(* The store                                                               *)
(***************************************************************************)

\* The rows of one (user, post) pair.
LikesOf(store, u, p) == {l \in store : l.user = u /\ l.post = p}

\* post.likes.filter(reaction=kind).count()
CountReactions(store, p, kind) ==
    Cardinality({l \in store : l.post = p /\ l.reaction = kind})

\* post.likes.count() that counts the likes alone.
CountLikesOnly(store, p) == Cardinality({l \in store : l.post = p /\ l.reaction = "like"})

\* post.likes.count()
CountLikes(store, p) == Cardinality({l \in store : l.post = p})

\* post.comments.count()
CountComments(cs, p) == Cardinality({i \in 1..Len(cs) : cs[i].post = p})

\* created_at = models.DateTimeField(auto_now_add=True): the clock at the
\* INSERT, later than the created_at of every stored comment.
Now(cs) ==
    LET stamps == {cs[i].created_at : i \in 1..Len(cs)} IN
    IF stamps = {} THEN 1 ELSE 1 + CHOOSE t \in stamps : \A u \in stamps : u <= t

\* ordering = ['-created_at'], as Post.Meta has it.
PrecedesDescending(x, y) == x.created_at > y.created_at

\* Comment.Meta.ordering = ['created_at']: x is listed before y.
Precedes(x, y) == x.created_at < y.created_at

\* post.comments.all(): the comments of post p in the order of Meta.ordering.
CommentsListing(cs, p) ==
    LET rows == {cs[i] : i \in {j \in 1..Len(cs) : cs[j].post = p}} IN
    [i \in 1..Cardinality(rows) |->
        CHOOSE r \in rows : Cardinality({x \in rows : Precedes(x, r)}) = i - 1]

\* unique_together = ['user', 'post'] with the constraint switched off.
UniqueTogetherOff(store, row) == TRUE

\* unique_together = ['user', 'post']: the table refuses a second row of a pair.
UniqueTogether(store, row) == LikesOf(store, row.user, row.post) = {}

\* The primary key and the foreign key to Post, as the table checks them.
KeysHold(store, ps, row) ==
    /\ \A l \in store : l.id # row.id
    /\ row.post \in ps

\* post.likes.all().delete() in the place of like.delete().
DeletedOfPost(store, like) == {l \in store : l.post # like.post}

\* like.delete(): DELETE of the row with the primary key of like.
Deleted(store, like) == {l \in store : l.id # like.id}

\* Whether INSERT of row succeeds; otherwise the database raises IntegrityError.
CanInsert(store, ps, row) == UniqueTogether(store, row) /\ KeysHold(store, ps, row)

\* Model.save() of a post: UPDATE by primary key, INSERT when no row has it.
SavedPosts(ps, id) == ps \cup {id}
SavedPostData(ps, pd, id, row) ==
    [p \in SavedPosts(ps, id) |-> IF p = id THEN row ELSE pd[p]]

(***************************************************************************)
(* Requests and responses                                                  *)
(***************************************************************************)

\* request.data.get('reaction', Like.LIKE) that forgets the dislike.
RequestedReactionLikeOnly(data) == IF data = DISLIKE THEN LIKE ELSE data

\* request.data.get('reaction'): no default for a body without the field.
RequestedReactionRequired(data) == data

\* request.data.get('reaction', Like.LIKE)
RequestedReaction(data) == IF data = Absent THEN LIKE ELSE data

\* permission_classes = [AllowAny]: no caller is turned away.
IsAuthenticatedAllowAny(user) == TRUE

\* permissions.IsAuthenticated, and IsAuthenticatedOrReadOnly on a request
\* that writes: the caller carries a session.
IsAuthenticated(user) == user # Anon

\* instance.author != self.request.user with the check dropped.
IsAuthorAny(post, user) == TRUE

\* instance.author == self.request.user
IsAuthor(post, user) == post.author = user

\* The check of the reaction with the test dropped.
ValidReactionAny(reaction) == TRUE

\* reaction in [Like.LIKE, Like.DISLIKE]
ValidReaction(reaction) == reaction \in REACTION_CHOICES

\* get_object_or_404 that finds a post under every id.
PostExistsAlways(ps, p) == TRUE

\* get_object_or_404(Post, id=post_id) finds the post.
PostExists(ps, p) == p \in ps

\* like.reaction = reaction left out before like.save().
ChangedNot(like, reaction) == like

\* like.reaction = reaction
Changed(like, reaction) == [like EXCEPT !.reaction = reaction]

\* like.reaction == reaction with the comparison inverted.
SameReactionInverted(like, reaction) == like.reaction # reaction

\* like.reaction == reaction
SameReaction(like, reaction) == like.reaction = reaction

\* The toggle requests: every reaction input by every user on the existing
\* post, and the requests that fail on the caller or on the post.
ToggleRequests ==
    {[op |-> "toggle", user |-> u, post |-> 1, data |-> d] :
        u \in Users, d \in ReactionInputs}
    \cup {[op |-> "toggle", user |-> "user1", post |-> 2, data |-> d] :
             d \in {LIKE, "angry"}}
    \cup {[op |-> "toggle", user |-> Anon, post |-> 1, data |-> LIKE],
          [op |-> "toggle", user |-> Anon, post |-> 2, data |-> "angry"]}
StatsRequests ==
    {[op |-> "stats", user |-> Anon, post |-> p, data |-> ""] : p \in PostIds}
CommentRequests ==
    {[op |-> "comment", user |-> u, post |-> 1, data |-> "hi"] : u \in Callers}
    \cup {[op |-> "comment", user |-> "user1", post |-> 2, data |-> "hi"],
          [op |-> "comment", user |-> "user1", post |-> 1, data |-> ""]}
Requests == ToggleRequests \cup StatsRequests \cup CommentRequests

\* The requests on posts: 'data' is the location_name of a create and the
\* text of an update.  Post 2 exists once a request has created it.
PostCreateRequests ==
    {[op |-> "post_create", user |-> "user1", post |-> 0, data |-> n] :
        n \in {"", "Sochi"}}
    \cup {[op |-> "post_create", user |-> u, post |-> 0, data |-> "Sochi"] :
             u \in {"user2", Anon}}
PostUpdateRequests ==
    {[op |-> "post_update", user |-> u, post |-> 1, data |-> "edited"] :
        u \in Callers}
    \cup {[op |-> "post_update", user |-> "user2", post |-> 2, data |-> "edited"]}
PostDestroyRequests ==
    {[op |-> "post_destroy", user |-> u, post |-> 1, data |-> ""] : u \in Callers}
    \cup {[op |-> "post_destroy", user |-> "user1", post |-> 2, data |-> ""]}
PostRequests == PostCreateRequests \cup PostUpdateRequests \cup PostDestroyRequests

\* Comment requests whose body names another post and another author than
\* the URL and the session do.
CommentBodyRequests ==
    {[op |-> "comment", user |-> "user1", post |-> 1, data |-> "hi",
      body_post |-> 2, body_author |-> "user2"],
     [op |-> "comment", user |-> "user2", post |-> 2, data |-> "hi",
      body_post |-> 1, body_author |-> "user1"]}

\* The requests on posts, with a request of every other handler by a user and
\* by the caller without a session.
CrudRequests ==
    PostRequests
    \cup {[op |-> "toggle", user |-> u, post |-> 1, data |-> LIKE] :
             u \in {"user2", Anon}}
    \cup {[op |-> "comment", user |-> u, post |-> 1, data |-> "hi"] :
             u \in {"user1", Anon}}
    \cup CommentBodyRequests
    \cup {[op |-> "stats", user |-> Anon, post |-> 1, data |-> ""]}

\* The toggle requests that pass every check of the view.
ReactionRequests ==
    {[op |-> "toggle", user |-> u, post |-> 1, data |-> d] :
        u \in Users, d \in REACTION_CHOICES}

FirstPc(op) ==
    CASE op = "toggle" -> "t_post"
      [] op = "stats" -> "s_post"
      [] op = "comment" -> "c_post"
      [] op = "post_create" -> "p_create"
      [] op = "post_update" -> "u_check"
      [] op = "post_destroy" -> "d_check"

Status(code) == [NoResp EXCEPT !.code = code]
\* Response({'status': 'reaction removed'})
Removed == [NoResp EXCEPT !.code = 200, !.status = "reaction removed"]
\* Response(LikeSerializer(like).data) of a serializer without 'reaction'.
SerializedWithoutReaction(like) ==
    [NoResp EXCEPT !.code = 200, !.like = [like EXCEPT !.reaction = ""]]

\* Response(LikeSerializer(like).data): the row, and no status field
Serialized(like) == [NoResp EXCEPT !.code = 200, !.like = like]
\* Response(stats)
StatsResponse(st) == [NoResp EXCEPT !.code = 200, !.stats = st]

\* The handler of slot s returns r.
Finish(s, r) ==
    /\ pc' = [pc EXCEPT ![s] = "done"]
    /\ resp' = [resp EXCEPT ![s] = r]

Goto(s, label) ==
    /\ pc' = [pc EXCEPT ![s] = label]
    /\ UNCHANGED resp

(***************************************************************************)
(* The initial state: the fixture of the test cases (two users, one post)  *)
(* with any reactions of the two users on the post already stored.         *)
(***************************************************************************)
UserIndex(u) == IF u = "user1" THEN 1 ELSE 2

InitialStores ==
    {{[id |-> UserIndex(u), user |-> u, post |-> 1, reaction |-> k[u]] :
        u \in {v \in Users : k[v] # ""}} :
        k \in [Users -> {"", LIKE, DISLIKE}]}

\* Post.objects.create(author=self.user1, text='...') of the fixtures.
InitialPost == [NoPost EXCEPT !.author = "user1", !.text = "original"]

\* The stored rows, as the requests that arrive one after another find them.
Snapshot == [posts |-> posts, postData |-> postData,
             likes |-> likes, comments |-> comments]

Init ==
    /\ posts = {1}
    /\ postData = [p \in {1} |-> InitialPost]
    /\ nextPostId = 2
    /\ likes \in InitialStores
    /\ likes0 = likes
    /\ nextLikeId = Cardinality(Users) + 1
    /\ comments = <<>>
    /\ pc = [s \in Procs |-> "idle"]
    /\ req = [s \in Procs |-> NoReq]
    /\ loc = [s \in Procs |-> NoLoc]
    /\ resp = [s \in Procs |-> NoResp]
    /\ pre = Snapshot

\* A request arrives; requests are numbered in the order of their arrival.
Arrive(s, r) ==
    /\ pc[s] = "idle"
    /\ IF s = 1 THEN TRUE ELSE pc[s - 1] # "idle"
    /\ req' = [req EXCEPT ![s] = r]
    /\ pc' = [pc EXCEPT ![s] = FirstPc(r.op)]
    /\ UNCHANGED <<posts, postData, nextPostId, likes, nextLikeId, comments, loc, resp, likes0>>

Start(s, r) == Arrive(s, r) /\ UNCHANGED pre

\* No request is being handled.
Quiet == \A s \in Procs : pc[s] \in {"idle", "done"}

\* A request arrives while no other is being handled; the store it finds is
\* kept for comparison with the store it leaves.
StartSeq(s, r) ==
    /\ Quiet
    /\ Arrive(s, r)
    /\ pre' = Snapshot

(***************************************************************************)
(* toggle_like                                                             *)
(***************************************************************************)

\* toggle_like with the check of 'reaction' moved before get_object_or_404.
ToggleCheckKindFirst(s) ==
    /\ pc[s] = "t_post"
    /\ IF ~IsAuthenticated(req[s].user) THEN Finish(s, Status(403))
       ELSE IF ~ValidReaction(RequestedReaction(req[s].data))
            THEN Finish(s, Status(400))
       ELSE IF ~PostExists(posts, req[s].post) THEN Finish(s, Status(404))
       ELSE Goto(s, "t_get")
    /\ UNCHANGED <<posts, postData, nextPostId, likes, nextLikeId, comments, req, loc, likes0, pre>>

\* IsAuthenticated, get_object_or_404(Post, id=post_id), the check of 'reaction'.
ToggleCheck(s) ==
    /\ pc[s] = "t_post"
    /\ IF ~IsAuthenticated(req[s].user) THEN Finish(s, Status(403))
       ELSE IF ~PostExists(posts, req[s].post) THEN Finish(s, Status(404))
       ELSE IF ~ValidReaction(RequestedReaction(req[s].data))
            THEN Finish(s, Status(400))
       ELSE Goto(s, "t_get")
    /\ UNCHANGED <<posts, postData, nextPostId, likes, nextLikeId, comments, req, loc, likes0, pre>>

\* Like.objects.get(user=..., post=...), as get_or_create issues it first and
\* again after a failed create.  MultipleObjectsReturned is not caught.
Lookup(s, onMissing) ==
    LET rows == LikesOf(likes, req[s].user, req[s].post) IN
    /\ IF rows = {} THEN onMissing
       ELSE IF Cardinality(rows) = 1
            THEN /\ loc' = [loc EXCEPT ![s].like = CHOOSE l \in rows : TRUE,
                                       ![s].created = FALSE]
                 /\ Goto(s, "t_apply")
       ELSE /\ Finish(s, Status(500))
            /\ UNCHANGED loc
    /\ UNCHANGED <<posts, postData, nextPostId, likes, nextLikeId, comments, req, likes0, pre>>

GetOrCreateGet(s) ==
    /\ pc[s] = "t_get"
    /\ Lookup(s, Goto(s, "t_create") /\ UNCHANGED loc)

\* self.create(user=..., post=..., reaction=reaction) inside get_or_create.
GetOrCreateCreate(s) ==
    /\ pc[s] = "t_create"
    /\ LET row == [id |-> nextLikeId, user |-> req[s].user, post |-> req[s].post,
                   reaction |-> RequestedReaction(req[s].data)] IN
       IF CanInsert(likes, posts, row)
       THEN /\ likes' = likes \cup {row}
            /\ nextLikeId' = nextLikeId + 1
            /\ loc' = [loc EXCEPT ![s].like = row, ![s].created = TRUE]
            /\ Finish(s, Serialized(row))
       ELSE /\ Goto(s, "t_reget")
            /\ loc' = [loc EXCEPT ![s].conflict = TRUE]
            /\ UNCHANGED <<likes, nextLikeId>>
    /\ UNCHANGED <<posts, postData, nextPostId, comments, req, likes0, pre>>

\* except IntegrityError that raises the error again without the second get.
GetOrCreateReGetRaises(s) ==
    /\ pc[s] = "t_reget"
    /\ Finish(s, Status(500))
    /\ UNCHANGED <<posts, postData, nextPostId, likes, nextLikeId, comments, req, loc, likes0, pre>>

\* except IntegrityError: the second get of get_or_create; when it finds no
\* row either the IntegrityError is raised again.
GetOrCreateReGet(s) ==
    /\ pc[s] = "t_reget"
    /\ Lookup(s, Finish(s, Status(500)) /\ UNCHANGED loc)

\* if not created: like.delete(), or like.reaction = reaction; like.save()
\* whose UPDATE by primary key comes first.
ToggleApply(s) ==
    /\ pc[s] = "t_apply"
    /\ LET like == loc[s].like
           reaction == RequestedReaction(req[s].data)
           changed == Changed(like, reaction)
       IN
       IF SameReaction(like, reaction)
       THEN /\ likes' = Deleted(likes, like)
            /\ Finish(s, Removed)
            /\ UNCHANGED loc
       ELSE /\ loc' = [loc EXCEPT ![s].like = changed]
            /\ IF \E l \in likes : l.id = like.id
               THEN /\ likes' = {l \in likes : l.id # like.id} \cup {changed}
                    /\ Finish(s, Serialized(changed))
               ELSE /\ Goto(s, "t_insert")
                    /\ UNCHANGED likes
    /\ UNCHANGED <<posts, postData, nextPostId, nextLikeId, comments, req, likes0, pre>>

\* like.save() when its UPDATE matched no row: INSERT under the old key.
SaveInsert(s) ==
    /\ pc[s] = "t_insert"
    /\ IF CanInsert(likes, posts, loc[s].like)
       THEN /\ likes' = likes \cup {loc[s].like}
            /\ Finish(s, Serialized(loc[s].like))
       ELSE /\ Finish(s, Status(500))
            /\ UNCHANGED likes
    /\ UNCHANGED <<posts, postData, nextPostId, nextLikeId, comments, req, loc, likes0, pre>>

(***************************************************************************)
(* post_stats: the post, then four counts, each a statement of its own     *)
(***************************************************************************)

\* Post.objects.get_or_create(id=post_id) in the place of get_object_or_404.
StatsPostCreates(s) ==
    /\ pc[s] = "s_post"
    /\ posts' = SavedPosts(posts, req[s].post)
    /\ postData' = IF PostExists(posts, req[s].post) THEN postData
                   ELSE SavedPostData(posts, postData, req[s].post, NoPost)
    /\ Goto(s, "s_likes")
    /\ UNCHANGED <<nextPostId, likes, nextLikeId, comments, req, loc, likes0, pre>>

\* get_object_or_404(Post, id=post_id); the view sets no permission class.
StatsPost(s) ==
    /\ pc[s] = "s_post"
    /\ IF ~PostExists(posts, req[s].post) THEN Finish(s, Status(404))
       ELSE Goto(s, "s_likes")
    /\ UNCHANGED <<posts, postData, nextPostId, likes, nextLikeId, comments, req, loc, likes0, pre>>

\* 'likes_count': post.likes.filter(reaction=Like.LIKE).count()
StatsLikes(s) ==
    /\ pc[s] = "s_likes"
    /\ loc' = [loc EXCEPT ![s].stats.likes_count =
                              CountReactions(likes, req[s].post, LIKE)]
    /\ Goto(s, "s_dislikes")
    /\ UNCHANGED <<posts, postData, nextPostId, likes, nextLikeId, comments, req, likes0, pre>>

\* 'dislikes_count': post.likes.filter(reaction=Like.DISLIKE).count()
StatsDislikes(s) ==
    /\ pc[s] = "s_dislikes"
    /\ loc' = [loc EXCEPT ![s].stats.dislikes_count =
                              CountReactions(likes, req[s].post, DISLIKE)]
    /\ Goto(s, "s_comments")
    /\ UNCHANGED <<posts, postData, nextPostId, likes, nextLikeId, comments, req, likes0, pre>>

\* 'comments_count': post.comments.count()
StatsComments(s) ==
    /\ pc[s] = "s_comments"
    /\ loc' = [loc EXCEPT ![s].stats.comments_count =
                              CountComments(comments, req[s].post)]
    /\ Goto(s, "s_total")
    /\ UNCHANGED <<posts, postData, nextPostId, likes, nextLikeId, comments, req, likes0, pre>>

\* 'total_reactions': post.likes.count(), and the response
StatsTotal(s) ==
    /\ pc[s] = "s_total"
    /\ LET st == [loc[s].stats EXCEPT
                     !.total_reactions = CountLikes(likes, req[s].post)] IN
       /\ loc' = [loc EXCEPT ![s].stats = st]
       /\ Finish(s, StatsResponse(st))
    /\ UNCHANGED <<posts, postData, nextPostId, likes, nextLikeId, comments, req, likes0, pre>>

(***************************************************************************)
(* CommentCreateView                                                       *)
(***************************************************************************)

\* The body of a comment request: 'text', and the 'post' and 'author' values
\* a caller may send along (0 and "" when the body has none).
CommentBody(r) ==
    [text |-> r.data,
     post |-> IF "body_post" \in DOMAIN r THEN r.body_post ELSE 0,
     author |-> IF "body_author" \in DOMAIN r THEN r.body_author ELSE ""]

\* A serializer with writable 'post' and 'author' saved without arguments:
\* the row takes the values of the body where the body has them.
SavedCommentFromBody(body, user, post, now) ==
    [author |-> IF body.author = "" THEN user ELSE body.author,
     post |-> IF body.post = 0 THEN post ELSE body.post,
     text |-> body.text, created_at |-> now]

\* serializer.save(author=self.request.user, post=post) of CommentSerializer:
\* validated_data holds 'text' alone ('author' is read-only, 'post' is no
\* field of the serializer); author and post are the arguments of save().
SavedComment(body, user, post, now) ==
    [author |-> user, post |-> post, text |-> body.text, created_at |-> now]

\* IsAuthenticated, the serializer's validation of 'text', then the
\* get_object_or_404 of perform_create.
CommentCheck(s) ==
    /\ pc[s] = "c_post"
    /\ IF ~IsAuthenticated(req[s].user) THEN Finish(s, Status(403))
       ELSE IF req[s].data = "" THEN Finish(s, Status(400))
       ELSE IF ~PostExists(posts, req[s].post) THEN Finish(s, Status(404))
       ELSE Goto(s, "c_save")
    /\ UNCHANGED <<posts, postData, nextPostId, likes, nextLikeId, comments, req, loc, likes0, pre>>

\* serializer.save(author=self.request.user, post=post); the INSERT fails on
\* the foreign key when the post is gone.
CommentSave(s) ==
    /\ pc[s] = "c_save"
    /\ LET row == SavedComment(CommentBody(req[s]), req[s].user, req[s].post,
                               Now(comments)) IN
       IF row.post \in posts
       THEN /\ comments' = Append(comments, row)
            /\ Finish(s, Status(201))
       ELSE /\ Finish(s, Status(500))
            /\ UNCHANGED comments
    /\ UNCHANGED <<posts, postData, nextPostId, likes, nextLikeId, req, loc, likes0, pre>>

(***************************************************************************)
(* PostListView (create) and PostDetailView (update, destroy)              *)
(***************************************************************************)

\* The outcomes of geolocator.geocode(location_name, timeout=5): a location,
\* None, one of the two geopy errors get_geolocation names, any other error.
GeoOutcomes == {"location", "none", "GeocoderTimedOut", "GeocoderServiceError",
                "Exception"}

\* What get_geolocation hands to its caller: a dict, None, or an exception.
GeoNone == [raised |-> FALSE, found |-> FALSE,
            latitude |-> "null", longitude |-> "null"]
GeoRaised == [GeoNone EXCEPT !.raised = TRUE]
GeoFound == [GeoNone EXCEPT !.found = TRUE,
                            !.latitude = "43.6", !.longitude = "39.7"]

\* get_geolocation(location_name) when geocode ends with outcome g.
get_geolocation(location_name, g) ==
    IF location_name = "" THEN GeoNone
    ELSE CASE g = "location" -> GeoFound
           [] g = "none" -> GeoNone
           [] g \in {"GeocoderTimedOut", "GeocoderServiceError"} -> GeoNone
           [] OTHER -> GeoRaised

\* An except clause in perform_create that names the two geopy errors alone.
ExceptGeocoderErrors(result) == FALSE

\* except Exception as e: whatever get_geolocation raised is caught.
ExceptException(result) == result.raised

\* IsAuthenticatedOrReadOnly, then serializer.save(author=self.request.user):
\* Post.objects.create(**validated_data).
PostCreate(s) ==
    /\ pc[s] = "p_create"
    /\ IF ~IsAuthenticated(req[s].user)
       THEN /\ Finish(s, Status(403))
            /\ UNCHANGED <<posts, postData, nextPostId, loc>>
       ELSE LET row == [NoPost EXCEPT !.author = req[s].user, !.text = "new",
                                      !.location_name = req[s].data] IN
            /\ posts' = posts \cup {nextPostId}
            /\ postData' = SavedPostData(posts, postData, nextPostId, row)
            /\ nextPostId' = nextPostId + 1
            /\ loc' = [loc EXCEPT ![s].post_id = nextPostId, ![s].post = row]
            /\ IF row.location_name # "" THEN Goto(s, "p_geo")
               ELSE Finish(s, Status(201))
    /\ UNCHANGED <<likes, nextLikeId, comments, req, likes0, pre>>

\* if post.location_name: the lookup inside try, and post.save() when it
\* returned coordinates.
PostGeolocate(s) ==
    /\ pc[s] = "p_geo"
    /\ \E g \in GeoOutcomes :
          LET geolocation_data == get_geolocation(loc[s].post.location_name, g)
              located == [loc[s].post EXCEPT
                             !.latitude = geolocation_data.latitude,
                             !.longitude = geolocation_data.longitude]
          IN
          IF geolocation_data.found
          THEN /\ posts' = SavedPosts(posts, loc[s].post_id)
               /\ postData' = SavedPostData(posts, postData, loc[s].post_id, located)
               /\ loc' = [loc EXCEPT ![s].post = located, ![s].geo = g]
               /\ Finish(s, Status(201))
          ELSE /\ loc' = [loc EXCEPT ![s].geo = g]
               /\ IF geolocation_data.raised /\ ~ExceptException(geolocation_data)
                  THEN Finish(s, Status(500))
                  ELSE Finish(s, Status(201))
               /\ UNCHANGED <<posts, postData>>
    /\ UNCHANGED <<nextPostId, likes, nextLikeId, comments, req, likes0, pre>>

\* IsAuthenticatedOrReadOnly and the get_object() of UpdateModelMixin.update.
PostUpdateCheck(s) ==
    /\ pc[s] = "u_check"
    /\ IF ~IsAuthenticated(req[s].user)
       THEN Finish(s, Status(403)) /\ UNCHANGED loc
       ELSE IF ~PostExists(posts, req[s].post)
       THEN Finish(s, Status(404)) /\ UNCHANGED loc
       ELSE /\ loc' = [loc EXCEPT ![s].post_id = req[s].post,
                                  ![s].post = postData[req[s].post]]
            /\ Goto(s, "u_get")
    /\ UNCHANGED <<posts, postData, nextPostId, likes, nextLikeId, comments, req, likes0, pre>>

\* perform_update: instance = self.get_object() and the check of the author.
PostUpdateGet(s) ==
    /\ pc[s] = "u_get"
    /\ IF ~PostExists(posts, req[s].post) THEN Finish(s, Status(404))
       ELSE IF ~IsAuthor(postData[req[s].post], req[s].user)
       THEN Finish(s, Status(403))
       ELSE Goto(s, "u_save")
    /\ UNCHANGED <<posts, postData, nextPostId, likes, nextLikeId, comments, req, loc, likes0, pre>>

\* serializer.save(): the fields of the request set on the instance that
\* update() read, and instance.save().
PostUpdateSave(s) ==
    /\ pc[s] = "u_save"
    /\ LET row == [loc[s].post EXCEPT !.text = req[s].data] IN
       /\ posts' = SavedPosts(posts, loc[s].post_id)
       /\ postData' = SavedPostData(posts, postData, loc[s].post_id, row)
       /\ loc' = [loc EXCEPT ![s].post = row]
       /\ Finish(s, Status(200))
    /\ UNCHANGED <<nextPostId, likes, nextLikeId, comments, req, likes0, pre>>

\* IsAuthenticatedOrReadOnly, the get_object() of DestroyModelMixin.destroy
\* and the check of the author in perform_destroy.
PostDestroyCheck(s) ==
    /\ pc[s] = "d_check"
    /\ IF ~IsAuthenticated(req[s].user)
       THEN Finish(s, Status(403)) /\ UNCHANGED loc
       ELSE IF ~PostExists(posts, req[s].post)
       THEN Finish(s, Status(404)) /\ UNCHANGED loc
       ELSE IF ~IsAuthor(postData[req[s].post], req[s].user)
       THEN Finish(s, Status(403)) /\ UNCHANGED loc
       ELSE /\ loc' = [loc EXCEPT ![s].post_id = req[s].post,
                                  ![s].post = postData[req[s].post]]
            /\ Goto(s, "d_delete")
    /\ UNCHANGED <<posts, postData, nextPostId, likes, nextLikeId, comments, req, likes0, pre>>

\* instance.delete() opens a transaction and deletes the rows that refer to
\* the post with on_delete=CASCADE: DELETE ... WHERE post_id IN (id) on the
\* Like and the Comment table.  Until the commit no other request sees the
\* rows gone; loc.deleted keeps their keys (Like.id, Comment.created_at).
PostDestroyRelated(s) ==
    /\ pc[s] = "d_delete"
    /\ LET id == loc[s].post_id IN
       loc' = [loc EXCEPT ![s].deleted =
                  [likes |-> {l.id : l \in {x \in likes : x.post = id}},
                   comments |-> {comments[i].created_at :
                                   i \in {j \in 1..Len(comments) :
                                             comments[j].post = id}}]]
    /\ Goto(s, "d_commit")
    /\ UNCHANGED <<posts, postData, nextPostId, likes, nextLikeId, comments, req, likes0, pre>>

\* instance.delete() of a Post whose Like.post and Comment.post neither
\* cascade nor are checked: the post goes, the rows that refer to it stay.
PostDestroyPostOnly(s) ==
    /\ pc[s] = "d_commit"
    /\ posts' = posts \ {loc[s].post_id}
    /\ postData' = [p \in posts \ {loc[s].post_id} |-> postData[p]]
    /\ Finish(s, Status(204))
    /\ UNCHANGED <<nextPostId, likes, nextLikeId, comments, req, loc, likes0, pre>>

\* The DELETE of the post and the commit of the transaction of
\* instance.delete().  A Like or Comment row of the post that another request
\* has inserted since the DELETEs above still refers to the post: the foreign
\* key refuses the commit, the transaction is rolled back and the
\* IntegrityError is answered as 500.
PostDestroy(s) ==
    /\ pc[s] = "d_commit"
    /\ LET id == loc[s].post_id
           missed(l) == l.post = id /\ l.id \notin loc[s].deleted.likes
           missedComment(c) == c.post = id
                               /\ c.created_at \notin loc[s].deleted.comments
       IN
       IF \/ \E l \in likes : missed(l)
          \/ \E i \in 1..Len(comments) : missedComment(comments[i])
       THEN /\ Finish(s, Status(500))
            /\ UNCHANGED <<posts, postData, likes, comments>>
       ELSE /\ likes' = {l \in likes : l.post # id}
            /\ comments' = SelectSeq(comments, LAMBDA c : c.post # id)
            /\ posts' = posts \ {id}
            /\ postData' = [p \in posts \ {id} |-> postData[p]]
            /\ Finish(s, Status(204))
    /\ UNCHANGED <<nextPostId, nextLikeId, req, loc, likes0, pre>>

(***************************************************************************)
(* Specifications                                                          *)
(***************************************************************************)

\* One statement of toggle_like in slot s.
ToggleStep(s) ==
    \/ ToggleCheck(s)
    \/ GetOrCreateGet(s)
    \/ GetOrCreateCreate(s)
    \/ GetOrCreateReGet(s)
    \/ ToggleApply(s)
    \/ SaveInsert(s)

\* One statement of post_stats in slot s.
StatsStep(s) ==
    \/ StatsPost(s)
    \/ StatsLikes(s)
    \/ StatsDislikes(s)
    \/ StatsComments(s)
    \/ StatsTotal(s)

\* One statement of the comment creation in slot s.
CommentStep(s) ==
    \/ CommentCheck(s)
    \/ CommentSave(s)

\* Requests of every kind arrive at any time and their handlers interleave
\* statement by statement.
Next ==
    \/ \E s \in 1..MaxArrivals, r \in Requests : Start(s, r)
    \/ \E s \in Procs : ToggleStep(s) \/ StatsStep(s) \/ CommentStep(s)

Spec == Init /\ [][Next]_vars

\* Requests arrive one after another: each is answered before the next
\* arrives.  The branches of toggle_like that only a concurrent writer makes
\* reachable (the failed create, the save that finds its row gone) are not
\* steps of this specification.
SeqNext ==
    \/ \E s \in 1..MaxArrivals, r \in Requests : StartSeq(s, r)
    \/ \E s \in Procs :
          \/ ToggleCheck(s)
          \/ GetOrCreateGet(s)
          \/ GetOrCreateCreate(s)
          \/ ToggleApply(s)
          \/ StatsStep(s)
          \/ CommentStep(s)

SeqSpec == Init /\ [][SeqNext]_vars

\* One statement of the handlers of the post views in slot s.
PostStep(s) ==
    \/ PostCreate(s)
    \/ PostGeolocate(s)
    \/ PostUpdateCheck(s)
    \/ PostUpdateGet(s)
    \/ PostUpdateSave(s)
    \/ PostDestroyCheck(s)
    \/ PostDestroyRelated(s)
    \/ PostDestroy(s)

\* Posts are created, updated and destroyed among the other requests, one
\* request at a time.
CrudNext ==
    \/ \E s \in 1..MaxArrivals, r \in CrudRequests : StartSeq(s, r)
    \/ \E s \in Procs :
          \/ PostStep(s)
          \/ ToggleCheck(s)
          \/ GetOrCreateGet(s)
          \/ GetOrCreateCreate(s)
          \/ ToggleApply(s)
          \/ StatsStep(s)
          \/ CommentStep(s)

CrudSpec == Init /\ [][CrudNext]_vars

\* A store with two posts, user1's and user2's, a comment on each, a reaction
\* on post 2 and, or not, the reactions of both users on post 1.
CascadeLikes ==
    {[id |-> 1, user |-> "user1", post |-> 1, reaction |-> LIKE],
     [id |-> 2, user |-> "user2", post |-> 1, reaction |-> DISLIKE],
     [id |-> 3, user |-> "user1", post |-> 2, reaction |-> LIKE]}
CascadeComments ==
    <<[author |-> "user2", post |-> 1, text |-> "first", created_at |-> 1],
      [author |-> "user1", post |-> 2, text |-> "second", created_at |-> 2]>>

CascadeInit ==
    /\ posts = {1, 2}
    /\ postData = [p \in {1, 2} |->
                     IF p = 1 THEN InitialPost
                     ELSE [InitialPost EXCEPT !.author = "user2"]]
    /\ nextPostId = 3
    /\ likes \in {CascadeLikes, {l \in CascadeLikes : l.post = 2}}
    /\ likes0 = likes
    /\ nextLikeId = 4
    /\ comments = CascadeComments
    /\ pc = [s \in Procs |-> "idle"]
    /\ req = [s \in Procs |-> NoReq]
    /\ loc = [s \in Procs |-> NoLoc]
    /\ resp = [s \in Procs |-> NoResp]
    /\ pre = Snapshot

\* The destroy of post 1 by its author and of post 2 by the same user, who
\* is not its author, among toggles, a comment and stats on the two posts.
CascadeRequests ==
    {[op |-> "post_destroy", user |-> "user1", post |-> p, data |-> ""] :
        p \in {1, 2}}
    \cup {[op |-> "toggle", user |-> "user1", post |-> 1, data |-> d] :
             d \in REACTION_CHOICES}
    \cup {[op |-> "toggle", user |-> "user2", post |-> 2, data |-> LIKE],
          [op |-> "comment", user |-> "user2", post |-> 1, data |-> "hi"],
          [op |-> "stats", user |-> Anon, post |-> 1, data |-> ""]}

\* The Like row with this key is deleted by a transaction of instance.delete()
\* that has not committed: the database holds its row lock.
LockedByDestroy(id) ==
    \E t \in Procs : pc[t] = "d_commit" /\ id \in loc[t].deleted.likes

\* The next statement of slot s writes a row, or inserts the key of a row,
\* that an uncommitted instance.delete() has deleted, or deletes the rows of a
\* post that another instance.delete() is deleting: the database makes the
\* statement wait for the end of that transaction.
WaitsForDestroy(s) ==
    \/ /\ pc[s] \in {"t_apply", "t_insert"}
       /\ LockedByDestroy(loc[s].like.id)
    \/ /\ pc[s] \in {"t_create", "t_insert"}
       /\ \E l \in LikesOf(likes, req[s].user, req[s].post) : LockedByDestroy(l.id)
    \/ /\ pc[s] = "d_delete"
       /\ \E t \in Procs \ {s} :
             pc[t] = "d_commit" /\ loc[t].post_id = loc[s].post_id

\* Posts are destroyed while toggles, comments and stats on them are being
\* handled.
CascadeNext ==
    \/ \E s \in 1..MaxArrivals, r \in CascadeRequests : Start(s, r)
    \/ \E s \in Procs : ~WaitsForDestroy(s) /\ PostDestroyCheck(s)
    \/ \E s \in Procs : ~WaitsForDestroy(s) /\ PostDestroyRelated(s)
    \/ \E s \in Procs : ~WaitsForDestroy(s) /\ PostDestroy(s)
    \/ \E s \in Procs : ~WaitsForDestroy(s) /\ ToggleCheck(s)
    \/ \E s \in Procs : ~WaitsForDestroy(s) /\ GetOrCreateGet(s)
    \/ \E s \in Procs : ~WaitsForDestroy(s) /\ GetOrCreateCreate(s)
    \/ \E s \in Procs : ~WaitsForDestroy(s) /\ GetOrCreateReGet(s)
    \/ \E s \in Procs : ~WaitsForDestroy(s) /\ ToggleApply(s)
    \/ \E s \in Procs : ~WaitsForDestroy(s) /\ SaveInsert(s)
    \/ \E s \in Procs : ~WaitsForDestroy(s) /\ StatsStep(s)
    \/ \E s \in Procs : ~WaitsForDestroy(s) /\ CommentCheck(s)
    \/ \E s \in Procs : ~WaitsForDestroy(s) /\ CommentSave(s)

CascadeSpec == CascadeInit /\ [][CascadeNext]_vars

\* Toggle requests that pass the checks arrive at any time, in every slot.
ToggleNext ==
    \/ \E s \in Procs, r \in ReactionRequests : Start(s, r)
    \/ \E s \in Procs : ToggleStep(s)

ToggleSpec == Init /\ [][ToggleNext]_vars

(***************************************************************************)
(* Vocabulary of the properties                                            *)
(***************************************************************************)

Pairs == Users \X PostIds

\* The stored reaction of a pair: "" when the pair has no row.
StoredKinds(store, u, p) == {l.reaction : l \in LikesOf(store, u, p)}

\* Slot s holds the request that arrived last.
Latest(s) ==
    /\ pc[s] # "idle"
    /\ IF s = NProcs THEN TRUE ELSE pc[s + 1] = "idle"

\* Slot s holds a toggle of an authenticated user on an existing post that
\* names its reaction.
Toggles(s, k) ==
    /\ req[s].op = "toggle"
    /\ req[s].user \in Users
    /\ req[s].post \in posts
    /\ req[s].data = k

\* Slot s holds the latest request, a toggle(k) as above, and has answered it.
Toggled(s, k) == Latest(s) /\ pc[s] = "done" /\ Toggles(s, k)

\* Slots s and s + 1 hold the toggles j and k of one user on one post.
Consecutive(s, j, k) ==
    /\ s + 1 \in Procs
    /\ pc[s] = "done" /\ Toggles(s, j)
    /\ Toggled(s + 1, k)
    /\ req[s + 1].user = req[s].user
    /\ req[s + 1].post = req[s].post

(***************************************************************************)
(* C1.  In every reachable state, however the toggle calls of the users    *)
(* interleave, a (user, post) pair has at most one stored Like row.        *)
(***************************************************************************)
C1_AtMostOneReaction ==
    \A pr \in Pairs : Cardinality(LikesOf(likes, pr[1], pr[2])) <= 1

\* A call is about to insert a row for a pair that already has one.
C1_Witness ==
    \E s \in Procs :
        /\ pc[s] = "t_create"
        /\ LikesOf(likes, req[s].user, req[s].post) # {}

(***************************************************************************)
(* C2.  A toggle(k), k like or dislike, of an authenticated user on an     *)
(* existing post whose pair has no row, run on its own, adds exactly one   *)
(* row: the pair's, of kind k; the post's count of kind k grows by one.    *)
(***************************************************************************)
C2_CreateOnEmpty ==
    \A s \in Procs, k \in REACTION_CHOICES :
        (Toggled(s, k) /\ LikesOf(pre.likes, req[s].user, req[s].post) = {})
        => LET mine == LikesOf(likes, req[s].user, req[s].post) IN
           /\ resp[s].code = 200
           /\ Cardinality(mine) = 1
           /\ StoredKinds(likes, req[s].user, req[s].post) = {k}
           /\ likes = pre.likes \cup mine
           /\ CountReactions(likes, req[s].post, k)
                = CountReactions(pre.likes, req[s].post, k) + 1

\* A dislike has been created for a pair that had no row.
C2_Witness ==
    \E s \in Procs :
        /\ Toggled(s, DISLIKE)
        /\ LikesOf(pre.likes, req[s].user, req[s].post) = {}
        /\ StoredKinds(likes, req[s].user, req[s].post) = {DISLIKE}

(***************************************************************************)
(* C3.  A toggle(k) that finds the pair's row with kind k deletes it; so   *)
(* toggle(k) twice in a row on a pair without a row, the first creating    *)
(* it, leaves the pair without a row.                                      *)
(***************************************************************************)
C3_SameKindRemoves ==
    /\ \A s \in Procs, k \in REACTION_CHOICES :
         (Toggled(s, k) /\ StoredKinds(pre.likes, req[s].user, req[s].post) = {k})
         => /\ resp[s] = Removed
            /\ LikesOf(likes, req[s].user, req[s].post) = {}
            /\ likes = pre.likes \ LikesOf(pre.likes, req[s].user, req[s].post)
    /\ \A s \in Procs, k \in REACTION_CHOICES :
         (Consecutive(s, k, k) /\ loc[s].created)
         => /\ resp[s + 1] = Removed
            /\ LikesOf(likes, req[s].user, req[s].post) = {}

\* toggle(like) twice: created, then removed.
C3_Witness ==
    \E s \in Procs :
        /\ Consecutive(s, LIKE, LIKE)
        /\ loc[s].created
        /\ resp[s + 1] = Removed

InvalidKinds == ReactionInputs \ (REACTION_CHOICES \cup {Absent})

C5_InvalidKindRejected ==
    \A s \in Procs, k \in InvalidKinds :
        Toggled(s, k)
        => /\ resp[s] = Status(400)
           /\ likes = pre.likes
           /\ comments = pre.comments
           /\ \A kind \in REACTION_CHOICES :
                CountReactions(likes, req[s].post, kind)
                  = CountReactions(pre.likes, req[s].post, kind)

\* toggle("angry") has been answered on a pair that holds a like.
C5_Witness ==
    \E s \in Procs :
        /\ Toggled(s, "angry")
        /\ StoredKinds(likes, req[s].user, req[s].post) = {LIKE}

(***************************************************************************)
(* C6.  toggle (of an authenticated user) and stats on a post id that no   *)
(* post has are answered 404, and the Like and Comment rows are the same   *)
(* before and after.                                                       *)
(***************************************************************************)
OnMissingPost(s) ==
    /\ pc[s] = "done"
    /\ req[s].post \notin posts
    /\ \/ req[s].op = "stats"
       \/ req[s].op = "toggle" /\ req[s].user \in Users

C6_MissingPostNotFound ==
    \A s \in Procs :
        (Latest(s) /\ OnMissingPost(s))
        => /\ resp[s] = Status(404)
           /\ likes = pre.likes
           /\ comments = pre.comments

\* A stats and then a toggle on the missing post have been answered.
C6_Witness ==
    \E s \in Procs :
        /\ s + 1 \in Procs
        /\ OnMissingPost(s) /\ req[s].op = "stats"
        /\ OnMissingPost(s + 1) /\ req[s + 1].op = "toggle"
        /\ likes # {}

(***************************************************************************)
(* C7.  stats of an existing post, run on its own, returns the number of   *)
(* users whose stored reaction on the post is like, the number whose       *)
(* reaction is dislike, the number of the post's comments, and the sum of  *)
(* the first two as total_reactions; all four are 0 for a post without     *)
(* reactions and comments.                                                 *)
(***************************************************************************)
ReactedWith(p, k) == {u \in Users : k \in StoredKinds(likes, u, p)}
CommentsOn(p) == SelectSeq(comments, LAMBDA c : c.post = p)

StatsAnswered(s) ==
    /\ Latest(s) /\ pc[s] = "done"
    /\ req[s].op = "stats"
    /\ req[s].post \in posts

C7_StatsCounts ==
    \A s \in Procs :
        StatsAnswered(s)
        => LET st == resp[s].stats
               p == req[s].post IN
           /\ resp[s].code = 200
           /\ st.likes_count = Cardinality(ReactedWith(p, LIKE))
           /\ st.dislikes_count = Cardinality(ReactedWith(p, DISLIKE))
           /\ st.comments_count = Len(CommentsOn(p))
           /\ st.total_reactions = st.likes_count + st.dislikes_count
           /\ ((\A u \in Users : LikesOf(likes, u, p) = {})
               /\ CommentsOn(p) = <<>>)
              => st = [likes_count |-> 0, dislikes_count |-> 0,
                       comments_count |-> 0, total_reactions |-> 0]

\* stats of a post with a like, a dislike and a comment.
C7_Witness ==
    \E s \in Procs :
        /\ StatsAnswered(s)
        /\ resp[s].stats = [likes_count |-> 1, dislikes_count |-> 1,
                            comments_count |-> 1, total_reactions |-> 2]

(***************************************************************************)
(* C8 as stated.  Two toggle(like) calls of one user on one post race on   *)
(* a pair without a row (one of them fails its create on the constraint):  *)
(* when both have answered, the pair has exactly one row.                  *)
(***************************************************************************)
\* The requests that have arrived are toggle(like) calls of user u on post p,
\* at most two, and the pair had no row at the start.
TwoLikes(u, p) ==
    /\ LikesOf(likes0, u, p) = {}
    /\ \A s \in Procs :
         \/ pc[s] = "idle"
         \/ s <= 2 /\ req[s] = [op |-> "toggle", user |-> u, post |-> p, data |-> LIKE]

BothAnswered == pc[1] = "done" /\ pc[2] = "done"

C8_EndsWithOneRow ==
    \A pr \in Pairs :
        (TwoLikes(pr[1], pr[2]) /\ BothAnswered
         /\ (loc[1].conflict \/ loc[2].conflict))
        => Cardinality(LikesOf(likes, pr[1], pr[2])) = 1

(***************************************************************************)
(* C8 amended.  While two toggle(like) calls of one user on one post run   *)
(* on a pair that had no row, under every interleaving of their            *)
(* statements, the pair never has two rows and the calls never both        *)
(* create; when both have answered, one has created the row, the other has *)
(* removed it, and the pair has no row.                                    *)
(***************************************************************************)
C8_NeverTwoRows ==
    \A pr \in Pairs :
        TwoLikes(pr[1], pr[2])
        => /\ Cardinality(LikesOf(likes, pr[1], pr[2])) <= 1
           /\ ~(loc[1].created /\ loc[2].created)
           /\ BothAnswered
              => /\ LikesOf(likes, pr[1], pr[2]) = {}
                 /\ loc[1].created # loc[2].created
                 /\ \E s \in {1, 2} : ~loc[s].created /\ resp[s] = Removed

\* Both calls have answered and one of them had failed its create.
C8_Witness ==
    \E pr \in Pairs :
        /\ TwoLikes(pr[1], pr[2])
        /\ BothAnswered
        /\ loc[1].conflict \/ loc[2].conflict

(***************************************************************************)
(* C9.  Toggle calls on one pair are serialized: when every call that      *)
(* arrived has answered, the stored reaction of each pair is what the same *)
(* calls give when run one after another in some order from the pair's     *)
(* initial reaction.                                                       *)
(***************************************************************************)
\* The transition of the toggle on a pair's stored kinds ({} or {kind}).
Transition(cur, k) == IF cur = {k} THEN {} ELSE {k}

RECURSIVE SerialOutcomes(_, _)
SerialOutcomes(cur, calls) ==
    IF calls = {} THEN {cur}
    ELSE UNION {SerialOutcomes(Transition(cur, req[s].data), calls \ {s}) :
                  s \in calls}

CallsOn(u, p) ==
    {s \in Procs : pc[s] # "idle" /\ req[s].user = u /\ req[s].post = p}

C9_Serializable ==
    Quiet =>
      \A pr \in Pairs :
         StoredKinds(likes, pr[1], pr[2])
           \in SerialOutcomes(StoredKinds(likes0, pr[1], pr[2]),
                              CallsOn(pr[1], pr[2]))

(***************************************************************************)
(* C10.  Every answer of stats is one snapshot of the store, also while    *)
(* toggles on the post run: its total_reactions is the sum of its          *)
(* likes_count and its dislikes_count.                                     *)
(***************************************************************************)
C10_StatsSnapshot ==
    \A s \in Procs :
        (pc[s] = "done" /\ req[s].op = "stats" /\ resp[s].code = 200)
        => resp[s].stats.total_reactions
             = resp[s].stats.likes_count + resp[s].stats.dislikes_count

(***************************************************************************)
(* C11.  post_stats is a pure read: no statement of a stats call, whether  *)
(* the call ends with 200 or with 404, changes a Post, Like or Comment     *)
(* row, and two stats calls on one post with no request between them       *)
(* answer with the same code and the same four counts.                     *)
(***************************************************************************)
StatsMoves(s) == req[s].op = "stats" /\ pc[s] # "idle" /\ pc'[s] # pc[s]

C11_StatsPureRead ==
    /\ [][\A s \in Procs :
             StatsMoves(s) => UNCHANGED <<posts, postData, likes, comments>>]_vars
    /\ [](\A s \in Procs :
             (/\ s + 1 \in Procs
              /\ pc[s] = "done" /\ pc[s + 1] = "done"
              /\ req[s].op = "stats" /\ req[s + 1].op = "stats"
              /\ req[s].post = req[s + 1].post)
             => resp[s] = resp[s + 1])

\* Two stats calls in a row on the post that has reactions, both answered.
C11_Witness ==
    \E s \in Procs :
        /\ s + 1 \in Procs
        /\ pc[s] = "done" /\ req[s].op = "stats"
        /\ StatsAnswered(s + 1)
        /\ req[s].post = req[s + 1].post
        /\ resp[s + 1].code = 200
        /\ resp[s + 1].stats.total_reactions > 0
        /\ resp[s + 1].stats = resp[s].stats

(***************************************************************************)
(* C12.  Every toggle call that answers 200 writes exactly once, an        *)
(* insert, a delete or an update of one row of its pair, in the step that  *)
(* answers; every other step of a toggle call, and every step of a call    *)
(* that fails, leaves the store as it is, so no reader sees a call half    *)
(* done.                                                                   *)
(***************************************************************************)
ToggleMoves(s) == req[s].op = "toggle" /\ pc[s] # "idle" /\ pc'[s] # pc[s]

\* The step changes the Like table by one row of the pair of slot s.
OneRowWritten(s) ==
    /\ likes' # likes
    /\ Cardinality(likes \ likes') <= 1
    /\ Cardinality(likes' \ likes) <= 1
    /\ \A l \in (likes \ likes') \cup (likes' \ likes) :
           l.user = req[s].user /\ l.post = req[s].post

C12_ExactlyOneWrite ==
    [][\A s \in Procs :
          ToggleMoves(s) =>
             /\ UNCHANGED <<posts, postData, comments>>
             /\ IF pc'[s] = "done" /\ resp'[s].code = 200
                THEN OneRowWritten(s)
                ELSE likes' = likes]_vars

(***************************************************************************)
(* C13.  However the toggle calls on one pair interleave, no call is       *)
(* answered with the IntegrityError of the unique constraint: every call   *)
(* that has answered has answered 200, with the row it created or changed  *)
(* or with the removal.                                                    *)
(***************************************************************************)
C13_ViolationNeverSurfaced ==
    \A s \in Procs :
        (pc[s] = "done" /\ req[s].op = "toggle") => resp[s].code = 200

(***************************************************************************)
(* C14.  An update or a destroy of an existing post by an authenticated    *)
(* user succeeds exactly when that user is the post's author: the author's *)
(* update answers 200 and sets the text, the author's destroy answers 204  *)
(* and removes the post; any other user is answered 403 and the post stays *)
(* stored with the row it had.                                             *)
(***************************************************************************)
\* Slot s holds the latest request, answered: an update or a destroy by a
\* user on a post that was stored when it arrived.
PostWriteAnswered(s) ==
    /\ Latest(s) /\ pc[s] = "done"
    /\ req[s].op \in {"post_update", "post_destroy"}
    /\ req[s].user \in Users
    /\ req[s].post \in pre.posts

C14_AuthorOnly ==
    \A s \in Procs :
        PostWriteAnswered(s) =>
            LET p == req[s].post
                before == pre.postData[p]
            IN
            IF before.author = req[s].user
            THEN IF req[s].op = "post_update"
                 THEN /\ resp[s].code = 200
                      /\ p \in posts
                      /\ postData[p] = [before EXCEPT !.text = req[s].data]
                 ELSE /\ resp[s].code = 204
                      /\ p \notin posts
            ELSE /\ resp[s].code = 403
                 /\ p \in posts
                 /\ postData[p] = before

\* user2 was refused the update of user1's post, then user1 updated it.
C14_Witness ==
    \E s \in Procs :
        /\ s + 1 \in Procs
        /\ pc[s] = "done" /\ req[s].op = "post_update"
        /\ req[s].user = "user2" /\ req[s].post = 1
        /\ resp[s].code = 403
        /\ PostWriteAnswered(s + 1)
        /\ req[s + 1].op = "post_update" /\ req[s + 1].user = "user1"
        /\ req[s + 1].post = 1
        /\ resp[s + 1].code = 200
        /\ postData[1].text = "edited"
        /\ pre.postData[1].text = "original"

(***************************************************************************)
(* C15.  A request that writes (a toggle, a comment, a post create, update *)
(* or destroy) from a caller without a session is answered 403 and leaves  *)
(* the Post, Like and Comment rows, and so their numbers, as it found      *)
(* them.                                                                   *)
(***************************************************************************)
MutatingOps == {"toggle", "comment", "post_create", "post_update", "post_destroy"}

\* Slot s holds the latest request, answered: a write without a session.
AnonWriteAnswered(s) ==
    /\ Latest(s) /\ pc[s] = "done"
    /\ req[s].op \in MutatingOps
    /\ req[s].user = Anon

C15_UnauthenticatedRejected ==
    \A s \in Procs :
        AnonWriteAnswered(s) =>
            /\ resp[s].code = 403
            /\ Snapshot = pre
            /\ Cardinality(likes) = Cardinality(pre.likes)
            /\ Len(comments) = Len(pre.comments)
            /\ Cardinality(posts) = Cardinality(pre.posts)

\* A toggle and then a post create without a session, both refused, on a
\* store that holds a reaction.
C15_Witness ==
    \E s \in Procs :
        /\ s + 1 \in Procs
        /\ pc[s] = "done" /\ req[s].op = "toggle" /\ req[s].user = Anon
        /\ resp[s].code = 403
        /\ AnonWriteAnswered(s + 1)
        /\ req[s + 1].op = "post_create"
        /\ resp[s + 1].code = 403
        /\ likes # {}

C17_PairsIndependent ==
    [][\A s \in Procs :
          ToggleMoves(s) =>
             \A pr \in Pairs :
                pr # <<req[s].user, req[s].post>>
                => LikesOf(likes', pr[1], pr[2]) = LikesOf(likes, pr[1], pr[2])]_vars

\* user1's like and user2's dislike, each created by a toggle, are both
\* stored.
C17_Witness ==
    /\ likes0 = {}
    /\ StoredKinds(likes, "user1", 1) = {LIKE}
    /\ StoredKinds(likes, "user2", 1) = {DISLIKE}
    /\ \E s, t \in Procs :
          /\ pc[s] = "done" /\ req[s].user = "user1" /\ loc[s].created
          /\ pc[t] = "done" /\ req[t].user = "user2" /\ loc[t].created

(***************************************************************************)
(* C18.  A post create by an authenticated user answers 201 and stores the *)
(* post whatever the geolocation lookup does: a location, None, a timeout, *)
(* a service error or any other exception.  The stored latitude and        *)
(* longitude are those of the location when the lookup returned one and    *)
(* null in every other case, the case of no location_name included.        *)
(***************************************************************************)
\* Slot s holds the latest request, answered: a post create by a user.
PostCreateAnswered(s) ==
    /\ Latest(s) /\ pc[s] = "done"
    /\ req[s].op = "post_create"
    /\ req[s].user \in Users

C18_GeolocationNeverFails ==
    \A s \in Procs :
        PostCreateAnswered(s) =>
            LET id == loc[s].post_id IN
            /\ resp[s].code = 201
            /\ posts = pre.posts \cup {id} /\ id \notin pre.posts
            /\ postData[id].author = req[s].user
            /\ postData[id].location_name = req[s].data
            /\ IF loc[s].geo = "location"
               THEN /\ postData[id].latitude = GeoFound.latitude
                    /\ postData[id].longitude = GeoFound.longitude
               ELSE /\ postData[id].latitude = "null"
                    /\ postData[id].longitude = "null"

\* The lookup raised an error that get_geolocation does not name, and the
\* post is stored without coordinates.
C18_Witness ==
    \E s \in Procs :
        /\ PostCreateAnswered(s)
        /\ loc[s].geo = "Exception"
        /\ resp[s].code = 201
        /\ loc[s].post_id \in posts
        /\ postData[loc[s].post_id].latitude = "null"

(***************************************************************************)
(* C19.  Comments are append-only and listed by creation: the listing of   *)
(* a post's comments is the comments of the post in the order they were    *)
(* created, and no step of a toggle, stats or comment-create call changes  *)
(* or removes a stored comment, so the comments_count of a post never      *)
(* decreases.                                                              *)
(***************************************************************************)
\* The comments of post p in the order of their INSERTs.
CreatedOn(cs, p) == SelectSeq(cs, LAMBDA c : c.post = p)

C19_CommentsAppendOnly ==
    /\ [](\A p \in PostIds : CommentsListing(comments, p) = CreatedOn(comments, p))
    /\ [][/\ Len(comments') >= Len(comments)
          /\ SubSeq(comments', 1, Len(comments)) = comments
          /\ \A p \in PostIds :
                CountComments(comments', p) >= CountComments(comments, p)]_vars

\* Two comments on post 1 are stored, the earlier one listed first.
C19_Witness ==
    /\ Len(CommentsListing(comments, 1)) = 2
    /\ CommentsListing(comments, 1)[1] = comments[1]
    /\ CommentsListing(comments, 1)[1].created_at
          < CommentsListing(comments, 1)[2].created_at
    /\ \E s \in Procs : pc[s] = "done" /\ req[s].op = "comment"
                         /\ resp[s].code = 201

ToggleAnswered(s) == Latest(s) /\ pc[s] = "done" /\ req[s].op = "toggle"

C21_CheckOrder ==
    \A s \in Procs :
        ToggleAnswered(s) =>
            LET anonymous == req[s].user = Anon
                missing == req[s].post \notin pre.posts
                invalid == req[s].data \notin REACTION_CHOICES \cup {Absent}
            IN
            /\ anonymous => resp[s].code = 403
            /\ (~anonymous /\ missing) => resp[s].code = 404
            /\ (~anonymous /\ ~missing /\ invalid) => resp[s].code = 400
            /\ (anonymous \/ missing \/ invalid) => Snapshot = pre

\* A call without a session and then a call of a user, both on the missing
\* post with an invalid kind: 403, then 404.
C21_Witness ==
    \E s \in Procs :
        /\ s + 1 \in Procs
        /\ pc[s] = "done" /\ req[s].op = "toggle" /\ req[s].user = Anon
        /\ req[s].post \notin posts /\ req[s].data = "angry"
        /\ resp[s].code = 403
        /\ ToggleAnswered(s + 1)
        /\ req[s + 1].user \in Users
        /\ req[s + 1].post \notin posts /\ req[s + 1].data = "angry"
        /\ resp[s + 1].code = 404

(***************************************************************************)
(* C22.  Referential integrity: in every state, while posts are destroyed  *)
(* among toggles, comments and stats, every stored Like and Comment refers *)
(* to a stored post.  The destroy that answers 204 removes the post with   *)
(* all its Likes and Comments and leaves the rows of every other post as   *)
(* they are; a toggle of a user or a stats call that starts on a post that *)
(* is gone is answered 404.                                                *)
(***************************************************************************)
ReferencesHold ==
    /\ \A l \in likes : l.post \in posts
    /\ \A i \in 1..Len(comments) : comments[i].post \in posts

\* The step is the commit of the destroy of slot s, answered 204.
Destroys(s) ==
    /\ req[s].op = "post_destroy"
    /\ pc[s] # "done" /\ pc'[s] = "done"
    /\ resp'[s].code = 204

\* The step is the first statement of a toggle of a user, or of a stats
\* call, on a post that is not stored.
StartsOnMissingPost(s) ==
    /\ \/ pc[s] = "t_post" /\ req[s].user \in Users
       \/ pc[s] = "s_post"
    /\ pc'[s] # pc[s]
    /\ req[s].post \notin posts

C22_ReferentialIntegrity ==
    /\ []ReferencesHold
    /\ [][\A s \in Procs :
             /\ Destroys(s) =>
                   /\ req[s].post \notin posts'
                   /\ likes' = {l \in likes : l.post # req[s].post}
                   /\ comments' = SelectSeq(comments,
                                            LAMBDA c : c.post # req[s].post)
                   /\ \A l \in likes' : l.post # req[s].post
             /\ StartsOnMissingPost(s) => resp'[s].code = 404]_vars

\* The author has destroyed post 1, which had reactions and a comment; the
\* reaction and the comment on post 2 are stored, and a toggle on post 1 has
\* been answered 404.
C22_Witness ==
    /\ \E l \in likes0 : l.post = 1
    /\ 1 \notin posts
    /\ likes = {l \in likes0 : l.post = 2} /\ likes # {}
    /\ Len(comments) = 1 /\ comments[1].post = 2
    /\ \E s, t \in Procs :
          /\ pc[s] = "done" /\ req[s].op = "post_destroy" /\ resp[s].code = 204
          /\ pc[t] = "done" /\ req[t].op = "toggle" /\ req[t].post = 1
          /\ resp[t].code = 404

(***************************************************************************)
(* C23.  A comment request of a user on a post id that no post has is      *)
(* answered 404 and stores no comment.  A comment request that answers 201 *)
(* has stored one comment, on the post of the URL, with the requesting     *)
(* user as author and the text of the body, whatever post and author the   *)
(* body names.                                                             *)
(***************************************************************************)
\* Slot s holds the latest request, answered: a comment of a user with a text.
CommentAnswered(s) ==
    /\ Latest(s) /\ pc[s] = "done"
    /\ req[s].op = "comment"
    /\ req[s].user \in Users
    /\ req[s].data # ""

C23_CommentOnUrlPost ==
    \A s \in Procs :
        CommentAnswered(s) =>
            /\ posts = pre.posts /\ postData = pre.postData /\ likes = pre.likes
            /\ IF req[s].post \notin pre.posts
               THEN /\ resp[s].code = 404
                    /\ comments = pre.comments
               ELSE /\ resp[s].code = 201
                    /\ Len(comments) = Len(pre.comments) + 1
                    /\ SubSeq(comments, 1, Len(pre.comments)) = pre.comments
                    /\ comments[Len(comments)].post = req[s].post
                    /\ comments[Len(comments)].author = req[s].user
                    /\ comments[Len(comments)].text = req[s].data

\* user2's comment on post 2 was answered 404 while no post 2 existed; then
\* user1's comment, its body naming post 2 and user2, was stored on post 1
\* with user1 as author.
C23_Witness ==
    \E s \in Procs :
        /\ s + 1 \in Procs
        /\ pc[s] = "done" /\ req[s].op = "comment" /\ req[s].post = 2
        /\ resp[s].code = 404
        /\ CommentAnswered(s + 1)
        /\ CommentBody(req[s + 1]).post = 2
        /\ CommentBody(req[s + 1]).author = "user2"
        /\ resp[s + 1].code = 201
        /\ Len(comments) = 1
        /\ comments[1].post = 1 /\ comments[1].author = "user1"

TypeOK ==
    /\ posts \subseteq 1..(NProcs + 1)
    /\ \A l \in likes : l.user \in Users /\ l.post \in PostIds
                        /\ l.reaction \in REACTION_CHOICES
    /\ nextLikeId \in 1..(Cardinality(Users) + NProcs + 1)
    /\ DOMAIN postData = posts
    /\ \A p \in posts : postData[p].author \in Users
    /\ nextPostId \in 2..(NProcs + 2)
    /\ \A s \in Procs :
          req[s] \in Requests \cup CrudRequests \cup CascadeRequests \cup {NoReq}

====
